---- MODULE Spec2Model ----
(***************************************************************************)
(* SuperSpeedySolutions Payment API (src/app.py).                          *)
(*                                                                         *)
(* A model of the two request handlers that take decisions:                *)
(*   stripe_webhook  (POST /webhook,        app.py 154-186)                *)
(*   verify_payment  (POST /verify-payment, app.py 108-152)                *)
(* together with the module-level startup check (app.py 17-22).            *)
(*                                                                         *)
(* Flask serves requests on concurrent workers, so every handler is cut    *)
(* into the steps of its code and the steps of different requests          *)
(* interleave freely.  Time advances by the action Tick; the processor's   *)
(* webhook signature scheme is modelled with an ideal MAC.                 *)
(***************************************************************************)
EXTENDS Integers, Sequences, FiniteSets, TLC

(***************************************************************************)
(* Bounds of the model.                                                    *)
(***************************************************************************)
\* the clock runs over 0..MaxTime
MaxTime == 2

\* webhook requests in flight, verify-payment requests in flight
Requests == {"w1", "w2"}
VRequests == {"v1", "v2"}

(***************************************************************************)
(* Process configuration (environment variables).                          *)
(***************************************************************************)
\* os.getenv of a variable that is not set gives None
Unset == "<unset>"
\* what Python's `not x` takes for false among the values of a setting
Falsy(x) == x \in {Unset, ""}

\* the webhook secret the processor signs with, and a key the service does not hold
GoodSecret == "whsec_good"
OtherSecret == "whsec_other"
EnvSecrets == {Unset, "", GoodSecret}
SigningKeys == {GoodSecret, OtherSecret}
EnvApiKeys == {Unset, "sk_test"}

(***************************************************************************)
(* Webhook notifications: raw body and Stripe-Signature header.            *)
(***************************************************************************)
CheckoutCompleted == "checkout.session.completed"
SubscriptionCreated == "customer.subscription.created"
RegisteredKinds == {CheckoutCompleted, SubscriptionCreated}
\* a kind the service registers no branch for, and a body without a "type" member
OtherKind == "invoice.paid"
NoType == "<no type>"
EventIds == {"evt_1", "evt_2"}

\* A raw body.  json = FALSE is a body that is not JSON; otherwise the body is
\* the event {"id": id, "type": type, "data": {"object": {...}}} and obj_id
\* says whether data.object carries an "id" member.
NotJson == [json |-> FALSE, id |-> "evt_1", type |-> NoType, obj_id |-> FALSE]
Payloads ==
    {NotJson}
    \cup [json : {TRUE}, id : EventIds, type : RegisteredKinds, obj_id : BOOLEAN]
    \cup [json : {TRUE}, id : EventIds, type : {OtherKind, NoType}, obj_id : {TRUE}]

\* HMAC-SHA256 of "<t>.<body>" under key, as an ideal MAC: equal exactly when
\* key, timestamp and body are equal.
Mac(key, t, body) == <<key, t, body>>

\* The header "t=<t>,v1=<mac>" a signer holding `key` sends with `body` at time t.
Sign(key, t, body) == <<[form |-> "t_v1", t |-> t, v1 |-> Mac(key, t, body)]>>
\* A header that does not split into t= and v1= items, and one with no v1 item.
Garbled(body) == <<[form |-> "garbled", t |-> 0, v1 |-> Mac(OtherSecret, 0, body)]>>
NoV1(body, t) == <<[form |-> "no_v1", t |-> t, v1 |-> Mac(OtherSecret, 0, body)]>>
\* request.headers.get gives None for an absent header: the empty sequence
NoHeader == <<>>

HeadersFor(body) ==
    {NoHeader, Garbled(body), NoV1(body, 0)}
    \cup {Sign(k, t, body) : k \in SigningKeys, t \in 0..MaxTime}

(***************************************************************************)
(* State.                                                                  *)
(***************************************************************************)
VARIABLES
    api_key,          \* stripe.api_key, read from STRIPE_SECRET_KEY at import
    webhook_secret,   \* the environment's STRIPE_WEBHOOK_SECRET
    now,              \* the clock the signature check reads
    pc,               \* where each webhook request is in stripe_webhook
    payload,          \* request.get_data()
    sig_header,       \* request.headers.get('Stripe-Signature')
    endpoint_secret,  \* the local read of STRIPE_WEBHOOK_SECRET
    event,            \* the local `event`: <<>> until construct_event returns
    response,         \* what the request was answered: <<>> until it is
    error,            \* the exception text logged by the except clause
    vtime,            \* the clock when construct_event ran: <<>> if it did not
    handled,          \* the branches of the event-kind chain entered, in order
    path,             \* the journey of the notification
    records,          \* the record updates applied downstream (event ids)
    vp_pc,            \* where each verify-payment request is in verify_payment
    vp_data,          \* request.get_json()
    vp_session,       \* the local `session`: <<>> until retrieve returns
    vp_response,      \* what the request was answered
    calls             \* the retrieve calls made to the processor, in order

wvars == <<api_key, webhook_secret, now, pc, payload, sig_header,
           endpoint_secret, event, response, error, vtime, handled, path, records>>
vvars == <<vp_pc, vp_data, vp_session, vp_response, calls>>
vars == <<api_key, webhook_secret, now, pc, payload, sig_header,
          endpoint_secret, event, response, error, vtime, handled, path, records,
          vp_pc, vp_data, vp_session, vp_response, calls>>

\* Module import raises ValueError when STRIPE_SECRET_KEY is not set: the
\* application object is never served.
Serving == ~Falsy(api_key)

(***************************************************************************)
(* stripe.Webhook.construct_event(payload, sig_header, secret), which the   *)
(* handler calls with the library's default tolerance.                     *)
(***************************************************************************)
\* The default tolerance (300 s) in ticks of the model's clock.
Tolerance == 1

\* verify_header without the comparison of the signature with the expected one
VerifyHeaderNoCompare(body, header, secret, time) ==
    IF header = NoHeader \/ header[1].form = "garbled"
    THEN "Unable to extract timestamp and signatures from header"
    ELSE IF header[1].form = "no_v1"
    THEN "No signatures found with expected scheme v1"
    ELSE IF header[1].t < time - Tolerance
    THEN "Timestamp outside the tolerance zone"
    ELSE "ok"

\* WebhookSignature.verify_header: "ok", or the text of the
\* SignatureVerificationError it raises.
VerifyHeader(body, header, secret, time) ==
    IF header = NoHeader \/ header[1].form = "garbled"
    THEN "Unable to extract timestamp and signatures from header"
    ELSE IF header[1].form = "no_v1"
    THEN "No signatures found with expected scheme v1"
    ELSE IF header[1].v1 # Mac(secret, header[1].t, body)
    THEN "No signatures found matching the expected signature for payload"
    ELSE IF header[1].t < time - Tolerance
    THEN "Timestamp outside the tolerance zone"
    ELSE "ok"

\* The event parsed from a verified body.
ParseEvent(body) == [id |-> body.id, type |-> body.type, obj_id |-> body.obj_id]

\* construct_event: the event, or the exception raised.
ConstructEvent(body, header, secret, time) ==
    LET v == VerifyHeader(body, header, secret, time) IN
    IF v # "ok" THEN [raised |-> TRUE, text |-> v, event |-> <<>>]
    ELSE IF ~body.json
    THEN [raised |-> TRUE, text |-> "Expecting value", event |-> <<>>]
    ELSE [raised |-> FALSE, text |-> "", event |-> <<ParseEvent(body)>>]

(***************************************************************************)
(* The responses of stripe_webhook.                                        *)
(***************************************************************************)
Received200 == [status |-> 200, body |-> "{'received': True}"]
\* the except clause: the text of the exception goes to the log only
WebhookFailed400 == [status |-> 400, body |-> "{'error': 'Webhook failed'}"]

(***************************************************************************)
(* The event-kind chain (if / elif / else).                                *)
(***************************************************************************)
Unhandled == "unhandled"

\* the chain with the first comparison against a misspelt kind
BranchMisspelt(ev) ==
    IF ev.type = "checkout.session.complete" THEN CheckoutCompleted
    ELSE IF ev.type = SubscriptionCreated THEN SubscriptionCreated
    ELSE Unhandled

\* the branch the chain takes for an event that has a type
Branch(ev) ==
    IF ev.type = CheckoutCompleted THEN CheckoutCompleted
    ELSE IF ev.type = SubscriptionCreated THEN SubscriptionCreated
    ELSE Unhandled

\* the chain with an else branch that raises on a kind it does not know
BranchRaisesOnUnknown(ev) ==
    \/ ev.type \notin RegisteredKinds
    \/ ev.type \in RegisteredKinds /\ ~ev.obj_id

\* Whether the chain raises: event['type'] of an event without a type, and
\* ...['object']['id'] in the two registered branches, raise KeyError.
BranchRaises(ev) ==
    \/ ev.type = NoType
    \/ ev.type \in RegisteredKinds /\ ~ev.obj_id

\* a branch that records the event downstream on every delivery
HandlerEffectApplies(recs, ev) == Append(recs, ev.id)

\* What a branch does to the downstream records: the branches only log
\* ("Here you could update your database, send confirmation emails, etc.").
HandlerEffect(recs, ev) == recs

(***************************************************************************)
(* Initial state: the process has been started with some environment and   *)
(* no request has arrived.                                                 *)
(***************************************************************************)
WInit ==
    /\ api_key \in EnvApiKeys
    /\ webhook_secret \in EnvSecrets
    /\ now = 0
    /\ pc = [r \in Requests |-> "idle"]
    /\ payload = [r \in Requests |-> NotJson]
    /\ sig_header = [r \in Requests |-> NoHeader]
    /\ endpoint_secret = [r \in Requests |-> Unset]
    /\ event = [r \in Requests |-> <<>>]
    /\ response = [r \in Requests |-> <<>>]
    /\ error = [r \in Requests |-> ""]
    /\ vtime = [r \in Requests |-> <<>>]
    /\ handled = [r \in Requests |-> <<>>]
    /\ path = [r \in Requests |-> <<>>]
    /\ records = <<>>

VInit ==
    /\ vp_pc = [v \in VRequests |-> "idle"]
    /\ vp_data = [v \in VRequests |-> <<>>]
    /\ vp_session = [v \in VRequests |-> <<>>]
    /\ vp_response = [v \in VRequests |-> <<>>]
    /\ calls = <<>>

(***************************************************************************)
(* stripe_webhook, step by step.                                           *)
(***************************************************************************)
\* The except clause: log the exception, answer 400; the journey ends in `state`.
Except(r, text, state) ==
    /\ response' = [response EXCEPT ![r] = <<WebhookFailed400>>]
    /\ error' = [error EXCEPT ![r] = text]
    /\ path' = [path EXCEPT ![r] = @ \o state]
    /\ pc' = [pc EXCEPT ![r] = "done"]

\* A notification arrives: the handler reads the body, the header and the secret.
Receive(r) ==
    /\ Serving
    /\ pc[r] = "idle"
    /\ \E body \in Payloads : \E header \in HeadersFor(body) :
        /\ payload' = [payload EXCEPT ![r] = body]
        /\ sig_header' = [sig_header EXCEPT ![r] = header]
    /\ endpoint_secret' = [endpoint_secret EXCEPT ![r] = webhook_secret]
    /\ path' = [path EXCEPT ![r] = <<"Received">>]
    /\ pc' = [pc EXCEPT ![r] = "received"]
    /\ UNCHANGED <<api_key, webhook_secret, now, event, response, error, vtime,
                   handled, records>>
    /\ UNCHANGED vvars

\* `if not endpoint_secret`: warn and answer 200, else go on to the verification.
CheckSecret(r) ==
    /\ pc[r] = "received"
    /\ IF Falsy(endpoint_secret[r])
       THEN /\ response' = [response EXCEPT ![r] = <<Received200>>]
            /\ path' = [path EXCEPT ![r] = @ \o <<"Acknowledged">>]
            /\ pc' = [pc EXCEPT ![r] = "done"]
       ELSE /\ pc' = [pc EXCEPT ![r] = "verify"]
            /\ UNCHANGED <<response, path>>
    /\ UNCHANGED <<api_key, webhook_secret, now, payload, sig_header,
                   endpoint_secret, event, error, vtime, handled, records>>
    /\ UNCHANGED vvars

\* construct_event storing its result in a module-level `event` all requests share
VerifyShared(r) ==
    /\ pc[r] = "verify"
    /\ vtime' = [vtime EXCEPT ![r] = <<now>>]
    /\ LET c == ConstructEvent(payload[r], sig_header[r], endpoint_secret[r], now) IN
       IF c.raised
       THEN /\ Except(r, c.text, <<"Rejected">>)
            /\ UNCHANGED event
       ELSE /\ event' = [q \in Requests |-> c.event]
            /\ path' = [path EXCEPT ![r] = @ \o <<"Verified">>]
            /\ pc' = [pc EXCEPT ![r] = "dispatch"]
            /\ UNCHANGED <<response, error>>
    /\ UNCHANGED <<api_key, webhook_secret, now, payload, sig_header,
                   endpoint_secret, handled, records>>
    /\ UNCHANGED vvars

\* event = stripe.Webhook.construct_event(payload, sig_header, endpoint_secret)
Verify(r) ==
    /\ pc[r] = "verify"
    /\ vtime' = [vtime EXCEPT ![r] = <<now>>]
    /\ LET c == ConstructEvent(payload[r], sig_header[r], endpoint_secret[r], now) IN
       IF c.raised
       THEN /\ Except(r, c.text, <<"Rejected">>)
            /\ UNCHANGED event
       ELSE /\ event' = [event EXCEPT ![r] = c.event]
            /\ path' = [path EXCEPT ![r] = @ \o <<"Verified">>]
            /\ pc' = [pc EXCEPT ![r] = "dispatch"]
            /\ UNCHANGED <<response, error>>
    /\ UNCHANGED <<api_key, webhook_secret, now, payload, sig_header,
                   endpoint_secret, handled, records>>
    /\ UNCHANGED vvars

\* The event-kind chain: enter the branch of the event's type; a KeyError
\* raised on the way is caught by the except clause.
Dispatch(r) ==
    /\ pc[r] = "dispatch"
    /\ LET ev == event[r][1] IN
       /\ handled' = [handled EXCEPT ![r] =
                        IF ev.type = NoType THEN @ ELSE @ \o <<Branch(ev)>>]
       /\ IF BranchRaises(ev)
          THEN /\ Except(r, "KeyError", <<"Dispatched", "HandlerFailed">>)
               /\ UNCHANGED records
          ELSE /\ records' = HandlerEffect(records, ev)
               /\ path' = [path EXCEPT ![r] = @ \o <<"Dispatched">>]
               /\ pc' = [pc EXCEPT ![r] = "respond"]
               /\ UNCHANGED <<response, error>>
    /\ UNCHANGED <<api_key, webhook_secret, now, payload, sig_header,
                   endpoint_secret, event, vtime>>
    /\ UNCHANGED vvars

\* return jsonify({'received': True})
Respond(r) ==
    /\ pc[r] = "respond"
    /\ response' = [response EXCEPT ![r] = <<Received200>>]
    /\ path' = [path EXCEPT ![r] = @ \o <<"Acknowledged">>]
    /\ pc' = [pc EXCEPT ![r] = "done"]
    /\ UNCHANGED <<api_key, webhook_secret, now, payload, sig_header,
                   endpoint_secret, event, error, vtime, handled, records>>
    /\ UNCHANGED vvars

\* Time passes.
Tick ==
    /\ now < MaxTime
    /\ now' = now + 1
    /\ UNCHANGED <<api_key, webhook_secret, pc, payload, sig_header,
                   endpoint_secret, event, response, error, vtime, handled, path,
                   records>>
    /\ UNCHANGED vvars

(***************************************************************************)
(* verify_payment, step by step.                                           *)
(***************************************************************************)
SessionIds == {"cs_1", "cs_2"}

\* What request.get_json() gives.  object = FALSE stands for every body that
\* is not a JSON object (no JSON at all, null, a list, ...): get_json raises
\* or data.get raises, and both end in the last except clause.  In an object,
\* session_id = Unset is the member being absent (data.get gives None).
VpBodies ==
    {[object |-> FALSE, session_id |-> Unset]}
    \cup [object : {TRUE}, session_id : {Unset, ""} \cup SessionIds]

\* What stripe.checkout.sessions.retrieve does: it raises a StripeError, it
\* raises something else, or it returns a session.  metadata = FALSE is a
\* session whose metadata is null.
PaymentStatuses == {"paid", "unpaid", "no_payment_required"}
Replies ==
    [kind : {"StripeError", "Exception"}, payment_status : {"unpaid"}, metadata : {TRUE}]
    \cup [kind : {"session"}, payment_status : PaymentStatuses, metadata : BOOLEAN]

SessionIdRequired400 ==
    [status |-> 400, success |-> FALSE, payment_status |-> "", error |-> "Session ID required"]
UnableToVerify400 ==
    [status |-> 400, success |-> FALSE, payment_status |-> "", error |-> "Unable to verify payment"]
VerificationFailed500 ==
    [status |-> 500, success |-> FALSE, payment_status |-> "", error |-> "Verification failed"]
Paid200 ==
    [status |-> 200, success |-> TRUE, payment_status |-> "paid", error |-> ""]
NotCompleted200(st) ==
    [status |-> 200, success |-> FALSE, payment_status |-> st, error |-> "Payment not completed"]

VpAnswer(v, resp) ==
    /\ vp_response' = [vp_response EXCEPT ![v] = <<resp>>]
    /\ vp_pc' = [vp_pc EXCEPT ![v] = "done"]

\* data = request.get_json()
VpReceive(v) ==
    /\ Serving
    /\ vp_pc[v] = "idle"
    /\ \E d \in VpBodies : vp_data' = [vp_data EXCEPT ![v] = <<d>>]
    /\ vp_pc' = [vp_pc EXCEPT ![v] = "received"]
    /\ UNCHANGED <<vp_session, vp_response, calls>>
    /\ UNCHANGED wvars

\* `if not session_id`
SessionIdMissing(d) == Falsy(d.session_id)

\* session_id = data.get('session_id'); if not session_id: answer 400
VpCheck(v) ==
    /\ vp_pc[v] = "received"
    /\ LET d == vp_data[v][1] IN
       IF ~d.object THEN VpAnswer(v, VerificationFailed500)
       ELSE IF SessionIdMissing(d) THEN VpAnswer(v, SessionIdRequired400)
       ELSE /\ vp_pc' = [vp_pc EXCEPT ![v] = "retrieve"]
            /\ UNCHANGED vp_response
    /\ UNCHANGED <<vp_data, vp_session, calls>>
    /\ UNCHANGED wvars

\* session = stripe.checkout.sessions.retrieve(session_id)
VpRetrieve(v) ==
    /\ vp_pc[v] = "retrieve"
    /\ \E reply \in Replies :
        /\ calls' = Append(calls, [by |-> v, session_id |-> vp_data[v][1].session_id,
                                   reply |-> reply])
        /\ IF reply.kind = "StripeError"
           THEN VpAnswer(v, UnableToVerify400) /\ UNCHANGED vp_session
           ELSE IF reply.kind = "Exception"
           THEN VpAnswer(v, VerificationFailed500) /\ UNCHANGED vp_session
           ELSE /\ vp_session' = [vp_session EXCEPT ![v] = <<reply>>]
                /\ vp_pc' = [vp_pc EXCEPT ![v] = "status"]
                /\ UNCHANGED vp_response
    /\ UNCHANGED vp_data
    /\ UNCHANGED wvars

\* the status test taking every status but 'unpaid' for a completed payment
IsPaidUnlessUnpaid(session) == session.payment_status # "unpaid"

\* `if session.payment_status == 'paid'`
IsPaid(session) == session.payment_status = "paid"

\* The answer built from the session; session.metadata.get raises on a
\* session without metadata.
VpStatus(v) ==
    /\ vp_pc[v] = "status"
    /\ LET session == vp_session[v][1] IN
       IF IsPaid(session)
       THEN IF session.metadata THEN VpAnswer(v, Paid200)
            ELSE VpAnswer(v, VerificationFailed500)
       ELSE VpAnswer(v, NotCompleted200(session.payment_status))
    /\ UNCHANGED <<vp_data, vp_session, calls>>
    /\ UNCHANGED wvars

Init == WInit /\ VInit

Next ==
    \/ \E r \in Requests : Receive(r)
    \/ \E r \in Requests : CheckSecret(r)
    \/ \E r \in Requests : Verify(r)
    \/ \E r \in Requests : Dispatch(r)
    \/ \E r \in Requests : Respond(r)
    \/ Tick

Spec == Init /\ [][Next]_vars

VNext ==
    \/ \E v \in VRequests : VpReceive(v)
    \/ \E v \in VRequests : VpCheck(v)
    \/ \E v \in VRequests : VpRetrieve(v)
    \/ \E v \in VRequests : VpStatus(v)

VerifySpec == Init /\ [][VNext]_vars

(***************************************************************************)
(* Vocabulary of the properties.                                           *)
(***************************************************************************)
Done(r) == pc[r] = "done"
Answered(r, resp) == response[r] = <<resp>>
Status(r) == response[r][1].status
Last(seq) == seq[Len(seq)]

\* construct_event was called for the request
VerificationRan(r) == vtime[r] # <<>>

\* The ways a signature fails against the body, the secret and the time of
\* its verification.
MissingSignature(r) == sig_header[r] = NoHeader
MalformedSignature(r) ==
    sig_header[r] # NoHeader /\ sig_header[r][1].form # "t_v1"
SignatureMismatch(r) ==
    /\ sig_header[r] # NoHeader
    /\ sig_header[r][1].form = "t_v1"
    /\ sig_header[r][1].v1 # Mac(webhook_secret, sig_header[r][1].t, payload[r])
Expired(r) ==
    /\ VerificationRan(r)
    /\ sig_header[r] # NoHeader
    /\ sig_header[r][1].form = "t_v1"
    /\ sig_header[r][1].t < vtime[r][1] - Tolerance
MisconfiguredSecret == Falsy(webhook_secret)

SignatureFails(r) ==
    MissingSignature(r) \/ MalformedSignature(r) \/ SignatureMismatch(r) \/ Expired(r)

\* signed under the configured secret, and verified within the tolerance window
CorrectlySigned(r) ==
    /\ ~MisconfiguredSecret
    /\ VerificationRan(r)
    /\ ~SignatureFails(r)

\* how often the record of an event id was updated downstream
Applications(id) == Cardinality({i \in 1..Len(records) : records[i] = id})

(***************************************************************************)
(* C1.  With no webhook secret configured the service fails closed: no     *)
(* notification is answered with the 200 acknowledgment unless its         *)
(* signature has been verified.                                            *)
(***************************************************************************)
C1_FailClosed ==
    \A r \in Requests :
        (MisconfiguredSecret /\ response[r] # <<>> /\ Status(r) = 200)
            => (VerificationRan(r) /\ event[r] # <<>>)

(***************************************************************************)
(* C2.  A request whose signature fails its verification (missing,         *)
(* malformed, mismatching or expired) produces no event, enters no branch  *)
(* of the event-kind chain, and is rejected.                               *)
(***************************************************************************)
C2_FailedVerificationIsRejected ==
    \A r \in Requests :
        (VerificationRan(r) /\ SignatureFails(r))
            => /\ event[r] = <<>>
               /\ handled[r] = <<>>
               /\ Done(r)
               /\ Answered(r, WebhookFailed400)
               /\ path[r] = <<"Received", "Rejected">>

\* a correctly signed notification verified after its tolerance window was rejected
C2_Witness ==
    \E r \in Requests :
        /\ VerificationRan(r) /\ Expired(r) /\ ~SignatureMismatch(r)
        /\ Answered(r, WebhookFailed400)

(***************************************************************************)
(* C3.  Every verification failure, whatever its variant                    *)
(* (MissingSignature, MalformedSignature, SignatureMismatch, Expired,      *)
(* MisconfiguredSecret), is answered with the same response: status 400    *)
(* and one fixed body that carries no exception text.                      *)
(***************************************************************************)
C3_UniformRejection ==
    \A r \in Requests :
        (Done(r) /\ (MisconfiguredSecret \/ SignatureFails(r)))
            => /\ Answered(r, WebhookFailed400)
               /\ response[r][1].body # error[r]

(***************************************************************************)
(* C4.  A verified event whose kind is not a registered one is             *)
(* acknowledged with status 200, and no branch of a registered kind is     *)
(* entered for it.                                                         *)
(***************************************************************************)
C4_UnknownKindAcknowledged ==
    \A r \in Requests :
        (event[r] # <<>> /\ event[r][1].type \notin RegisteredKinds \cup {NoType})
            => /\ \A i \in 1..Len(handled[r]) : handled[r][i] \notin RegisteredKinds
               /\ Done(r) => /\ Answered(r, Received200)
                             /\ handled[r] = <<Unhandled>>
                             /\ Last(path[r]) = "Acknowledged"

C4_Witness ==
    \E r \in Requests :
        /\ Done(r) /\ event[r] # <<>> /\ event[r][1].type = OtherKind
        /\ Answered(r, Received200)

(***************************************************************************)
(* C5.  A handler failure while dispatching a verified event is answered   *)
(* with status 500, neither the 200 acknowledgment nor the 400 of a        *)
(* rejected verification.                                                  *)
(***************************************************************************)
C5_HandlerFailureIs500 ==
    \A r \in Requests :
        (Done(r) /\ Last(path[r]) = "HandlerFailed") => Status(r) = 500

Processed(r) == Done(r) /\ event[r] # <<>> /\ Answered(r, Received200)

\* q is the request of p over again, handled no earlier than p
Replays(p, q) ==
    /\ p # q
    /\ payload[q] = payload[p] /\ sig_header[q] = sig_header[p]
    /\ VerificationRan(p) /\ VerificationRan(q) /\ vtime[p][1] <= vtime[q][1]

\* C7 as stated: every replay of a processed notification is acknowledged,
\* and the record of one event id is updated at most once.
C7_ReplayAlwaysAcknowledged ==
    /\ \A p, q \in Requests :
         (Processed(p) /\ Replays(p, q) /\ Done(q)) => Answered(q, Received200)
    /\ \A id \in EventIds : Applications(id) <= 1

\* C7 as amended: a replay is acknowledged when it is itself verified within
\* the tolerance window of its signature (a later one is rejected as expired);
\* the record of one event id is updated at most once.
C7_VerifiedReplayAcknowledged ==
    /\ \A p, q \in Requests :
         (Processed(p) /\ Replays(p, q) /\ Done(q) /\ ~Expired(q))
            => /\ Answered(q, Received200)
               /\ handled[q] = handled[p]
    /\ \A id \in EventIds : Applications(id) <= 1

C7_Witness ==
    \E p, q \in Requests :
        /\ Processed(p) /\ Replays(p, q) /\ Processed(q)
        /\ payload[p].type \in RegisteredKinds
        /\ vtime[p][1] < vtime[q][1]

(***************************************************************************)
(* C8.  The journey of a notification is                                   *)
(* Received -> {Verified -> Dispatched -> {Acknowledged, HandlerFailed}}   *)
(* | Rejected: an answered notification is in exactly one terminal state,  *)
(* and Acknowledged comes only after Verified and then Dispatched.         *)
(***************************************************************************)
Journeys ==
    { <<"Received", "Verified", "Dispatched", "Acknowledged">>,
      <<"Received", "Verified", "Dispatched", "HandlerFailed">>,
      <<"Received", "Rejected">> }

C8_JourneyFollowsStateMachine ==
    \A r \in Requests :
        /\ \E j \in Journeys : Len(path[r]) <= Len(j) /\ path[r] = SubSeq(j, 1, Len(path[r]))
        /\ Done(r) <=> path[r] \in Journeys
        /\ Done(r) <=> response[r] # <<>>

(***************************************************************************)
(* C9.  Concurrent notifications do not interfere: the outcome of each is  *)
(* a function of its own body, its own signature header and the            *)
(* configuration.                                                          *)
(***************************************************************************)
C9_OutcomeOfBodyAndHeader ==
    \A p, q \in Requests :
        (Done(p) /\ Done(q) /\ payload[p] = payload[q] /\ sig_header[p] = sig_header[q])
            => /\ response[p] = response[q]
               /\ handled[p] = handled[q]

\* what stripe_webhook answers, run on its own
Outcome(body, header, secret, time) ==
    IF Falsy(secret) THEN Received200
    ELSE LET c == ConstructEvent(body, header, secret, time) IN
         IF c.raised \/ BranchRaises(c.event[1]) THEN WebhookFailed400 ELSE Received200

\* C9 as amended: the outcome of each notification is a function of its own
\* body, its own header, the configured secret and the time of its
\* verification, whatever the other requests do.
C9_OutcomeOfOwnInputs ==
    \A r \in Requests :
        /\ pc[r] # "idle" => endpoint_secret[r] = webhook_secret
        /\ Done(r) =>
            Answered(r, Outcome(payload[r], sig_header[r], webhook_secret,
                                IF VerificationRan(r) THEN vtime[r][1] ELSE 0))
        /\ event[r] # <<>> => event[r] = <<ParseEvent(payload[r])>>

\* two requests were in flight together, and both were answered
C9_Witness ==
    /\ \A r \in Requests : Done(r) /\ event[r] # <<>>
    /\ \E p, q \in Requests :
        /\ payload[p] # payload[q]
        /\ Status(p) # Status(q)
        /\ vtime[p] = vtime[q]

(***************************************************************************)
(* C10.  verify_payment answers success only when the processor was asked  *)
(* for the session of the given session_id and reported it paid; a request *)
(* with a missing or empty session_id is answered 400 without a call to    *)
(* the processor; any other payment status and any processor error give    *)
(* success false.                                                          *)
(***************************************************************************)
VpDone(v) == vp_pc[v] = "done"
VpSuccess(v) == vp_response[v][1].success
CallsBy(v) == {i \in 1..Len(calls) : calls[i].by = v}

\* the request carries no session id to ask the processor for
NoSessionId(v) == ~vp_data[v][1].object \/ vp_data[v][1].session_id \in {Unset, ""}

SuccessOnlyWhenPaid(v) ==
    /\ VpSuccess(v) =>
        \E i \in CallsBy(v) :
            /\ calls[i].session_id = vp_data[v][1].session_id
            /\ calls[i].reply.kind = "session"
            /\ calls[i].reply.payment_status = "paid"
    /\ \A i \in CallsBy(v) :
        (calls[i].reply.kind # "session" \/ calls[i].reply.payment_status # "paid")
            => ~VpSuccess(v)
    /\ Cardinality(CallsBy(v)) <= 1

\* C10 as stated: success only when paid, and 400 without a call to the
\* processor for every request that carries no session id.
C10_MissingSessionIdIs400 ==
    \A v \in VRequests :
        VpDone(v) =>
            /\ SuccessOnlyWhenPaid(v)
            /\ NoSessionId(v) =>
                /\ vp_response[v][1].status = 400
                /\ CallsBy(v) = {}

\* C10 as amended: a JSON object with a missing or empty session_id is
\* answered 400, a body that is no JSON object is answered 500, both without
\* a call to the processor.
C10_VerifyPayment ==
    \A v \in VRequests :
        VpDone(v) =>
            /\ SuccessOnlyWhenPaid(v)
            /\ NoSessionId(v) =>
                /\ vp_response[v][1].status = IF vp_data[v][1].object THEN 400 ELSE 500
                /\ ~VpSuccess(v)
                /\ CallsBy(v) = {}

C10_Witness ==
    \E v, w \in VRequests :
        /\ VpDone(v) /\ VpSuccess(v)
        /\ VpDone(w) /\ NoSessionId(w) /\ vp_data[w][1].object
        /\ \E i \in CallsBy(v) : calls[i].reply.payment_status = "paid"

====
